---------------------------- MODULE Spec2Model ----------------------------
(***************************************************************************)
(* Model of mlens.ensemble.ensemble.Ensemble: the constructor, the         *)
(* two-phase fit() (out-of-fold predictions for the meta estimator, then   *)
(* the refit of preprocessing and base estimators on the full training     *)
(* set) and predict().                                                     *)
(*                                                                         *)
(* ensemble.py is the only file of the package at hand.  The helpers it    *)
(* imports (sklearn's clone, _clone_base_estimators,                       *)
(* _clone_preprocess_cases, preprocess_folds, folded_predictions,          *)
(* preprocess_pipes, fit_estimators) are modelled from the specification   *)
(* (sections 4.1-4.4, 5, 6); everything else follows the statements of     *)
(* ensemble.py line by line.                                               *)
(*                                                                         *)
(* Rows of X are 0..n-1.  A fitted instance is represented by the set of   *)
(* rows it was fitted on; a cell of the prediction matrix M by the rows    *)
(* its learner and its preprocessing stage were fitted on.                 *)
(***************************************************************************)
EXTENDS Integers, Sequences, FiniteSets, TLC

\* ----------------------------------------------------------------- bounds
MaxN == 3        \* largest n_samples of an X handed to fit() or predict()
MaxFolds == 3    \* largest `folds` handed to the constructor
MaxFits == 2     \* fit() calls per behaviour

\* ------------------------------------------------- construction input
\* base_pipelines = {1: ([transformers], [est, est]), 2: ([transformers], [est])}
\* CaseOf[j] is the preprocessing case of the j-th (case, learner) pair.
Cases == {1, 2}
CaseOf == <<1, 1, 2>>
Pairs == 1..Len(CaseOf)

VARIABLES
  classShuffle,      \* what the attribute lookup self.shuffle finds on the class
                     \* before __init__ assigns it: "absent", "true" or "false"
  constructed,       \* an Ensemble object exists (its __init__ returned)
  folds,             \* self.folds
  shuffle,           \* self.shuffle
  meta_estimator_,   \* self.meta_estimator_
  base_estimators_,  \* self.base_estimators_
  preprocess_,       \* self.preprocess_
  pc,                \* position of the running fit() call, "idle" when none runs
  nrows,             \* X.shape[0] of the running fit() call
  holdout,           \* the fold partition of the running call: fold -> holdout rows
  data,              \* local `data` of fit(): the fold preprocessing results so far
  M,                 \* local `M` of fit(): the cells written so far
  out,               \* local `out` of fit(): the production preprocessing results
  prod,              \* production learners fitted so far by fit_estimators
  done,              \* work units of the running call that have completed
  fitted,            \* which instance each completed unit of the running call fitted
  prevRun,           \* history: the last fold partition and M built without shuffling
  fitCount,          \* number of fit() calls started
  lastOp,            \* the last call the caller made: "none", "init", "fit", "predict"
  lastArg,           \* its arguments
  lastResult         \* what it returned or raised

attrs == <<meta_estimator_, base_estimators_, preprocess_>>
locals == <<nrows, holdout, data, M, out, prod, done, fitted>>
config == <<classShuffle, constructed, folds, shuffle>>
vars == <<config, attrs, pc, locals, fitCount, lastOp, lastArg, lastResult, prevRun>>

\* ------------------------------------------------------------ values
Rows(n) == 0..(n - 1)
NoUnit == <<"none", 0, 0>>
Ok == [kind |-> "ok", unit |-> NoUnit]
Err(k, u) == [kind |-> k, unit |-> u]
Args(x, k, s) == [x |-> x, folds |-> k, shuffle |-> s]

\* An attribute that was never set (hasattr is False).
Absent == [present |-> FALSE, gen |-> 0, fitted |-> FALSE, M |-> {}, parts |-> {}]
\* clone(spec): an unfitted instance of generation g.
Clone(g) == [present |-> TRUE, gen |-> g, fitted |-> FALSE, M |-> {}, parts |-> {}]

\* ------------------------------------------------ fold partitioner
\* Spec 4.1: K holdout sets whose sizes differ by at most one; contiguous
\* blocks of the (possibly permuted) index sequence.
Identity(n) == [i \in 1..n |-> i - 1]
Perms(n) == {p \in [1..n -> Rows(n)] : \A i, j \in 1..n : p[i] = p[j] => i = j}
FoldSize(n, K, f) == (n \div K) + (IF f <= n % K THEN 1 ELSE 0)
RECURSIVE FoldStart(_, _, _)
FoldStart(n, K, f) == IF f <= 1 THEN 0 ELSE FoldStart(n, K, f - 1) + FoldSize(n, K, f - 1)

\* A partitioner whose blocks end one position late: neighbouring holdout
\* sets share a row.
KFoldOffByOne(n, K, perm) ==
  [f \in 1..K |-> {perm[i] : i \in (1..n) \cap
     ((FoldStart(n, K, f) + 1)..(FoldStart(n, K, f) + FoldSize(n, K, f) + 1))}]

\* sklearn-style K-fold: the first n % K blocks hold one row more.
KFold(n, K, perm) ==
  [f \in 1..K |-> {perm[i] : i \in (FoldStart(n, K, f) + 1)..(FoldStart(n, K, f) + FoldSize(n, K, f))}]
ValidFoldCount(n, K) == K >= 2 /\ K <= n


\* --------------------------------------------- helpers of fit() (units)
\* One unit of preprocess_folds (spec 4.4 step 1): a fresh stage of case c
\* fitted on the training partition of fold f, then used to transform the
\* training and the holdout partition.
preprocess_folds_unit(f, c, n, hold) ==
  [fold |-> f, case |-> c, ptrain |-> Rows(n) \ hold[f],
   train |-> Rows(n) \ hold[f], hold |-> hold[f]]

\* One unit of preprocess_pipes (spec 4.2, production mode): the stage of
\* case c fitted on every row, and Z, the transformed full data.
preprocess_pipes_unit(c, n) ==
  [case |-> c, ptrain |-> Rows(n), rows |-> Rows(n)]

\* Column of a (case, learner) pair in M: the position of the pair in the
\* construction input (spec 3: one column per pair, in a stable order).
ColumnOf(j) == j

\* One unit of folded_predictions (spec 4.4 steps 2-3): a fresh learner of
\* pair j fitted on the transformed training partition d.train, predicting
\* the holdout partition; one cell per holdout row, in the pair's column.
folded_predictions_unit(d, j) ==
  {[row |-> i, col |-> ColumnOf(j), fold |-> d.fold,
    ltrain |-> d.train, ptrain |-> d.ptrain] : i \in d.hold}

\* One unit of fit_estimators: the production learner of pair j fitted on
\* the z of its case and the full y.
fit_estimators_unit(z, j) ==
  [pair |-> j, case |-> z.case, ltrain |-> z.rows, ptrain |-> z.ptrain]

\* ------------------------------------------------------ ensemble.py
\* Line 84, self.shuffle = self.shuffle: the right-hand side is an attribute
\* lookup on the instance, which at that point finds only what the class
\* provides; the constructor's argument s is not read.
StoredShuffle(s) == classShuffle = "true"


\* fit() handing preprocess_folds a constant True for the shuffle flag.
PartitionAlwaysShuffled(n, perm) == KFold(n, folds, perm)

\* Lines 114-116: fit() hands self.folds and self.shuffle to preprocess_folds;
\* perm is the permutation the seed yields when shuffling.
Partition(n, perm) == KFold(n, folds, IF shuffle THEN perm ELSE Identity(n))


\* fit() handing folded_predictions data preprocessed and split as by
\* preprocess_pipes: stage and learner see every row.
FoldStageFull(f, c) ==
  [fold |-> f, case |-> c, ptrain |-> Rows(nrows), train |-> Rows(nrows),
   hold |-> holdout[f]]

\* Lines 114-119: the `data` fit() hands to folded_predictions is what
\* preprocess_folds returned for the folds.
FoldStage(f, c) == preprocess_folds_unit(f, c, nrows, holdout)


\* fit_estimators pairing every learner with one and the same element of
\* the production preprocessing output, whatever the learner's case.
ProdInputFirst(j) == CHOOSE z \in out : TRUE

\* Lines 129-136: the z fit() hands to fit_estimators for a pair is the
\* production-transformed full data of the pair's case.
ProdInput(j) == CHOOSE z \in out : z.case = CaseOf[j]

\* ------------------------------------------------------- instances
\* An instance (a transformer chain, a learner) is named by where it came
\* from: the constructor argument or the line of fit() whose clone call
\* made it, the fit() call, the fold (0: none) and the case or pair.
SpecMeta == <<"meta_estimator", 0, 0, 0>>
SpecEst(j) == <<"base_estimators", 0, 0, j>>
SpecPre(c) == <<"preprocess", 0, 0, c>>
SpecInstances ==
  {SpecMeta} \cup {SpecEst(j) : j \in Pairs} \cup {SpecPre(c) : c \in Cases}

\* Line 102: clone(self.meta_estimator).
MetaInstance(g) == <<"L102", g, 0, 0>>

\* Line 103: _clone_base_estimators(self.base_estimators).
BaseInstance(g, j) == <<"L103", g, 0, j>>


\* Line 104 without the clone: self.preprocess_ is the constructor-supplied
\* transformer itself.
PreInstanceNoClone(g, c) == SpecPre(c)

\* Line 104: _clone_preprocess_cases(self.preprocess).
PreInstance(g, c) == <<"L104", g, 0, c>>

\* Line 114: the clones handed to preprocess_folds.
FoldPreTemplate(g, c) == <<"L114", g, 0, c>>

\* Line 120: the clones handed to folded_predictions.
FoldEstTemplate(g, j) == <<"L120", g, 0, j>>


\* A helper that fits the template it was handed in every fold, all folds'
\* units sharing the one instance.
InstantiateShared(template, f) == template

\* Spec 4.3/4.4: a fold unit instantiates a fresh instance of its own from
\* what it was handed.
Instantiate(template, f) == <<template[1], template[2], f, template[4]>>


\* preprocess_folds fitting, in every fold, the stage that fit() keeps in
\* self.preprocess_ rather than an instance of its own.
FoldStageInstanceHeld(f, c) == PreInstance(fitCount, c)

\* The instance the (fold, case) unit of preprocess_folds fits, and the one
\* the (fold, pair) unit of folded_predictions fits.
FoldStageInstance(f, c) == Instantiate(FoldPreTemplate(fitCount, c), f)
FoldLearnerInstance(f, j) == Instantiate(FoldEstTemplate(fitCount, j), f)

Fits(u, inst) == [unit |-> u, inst |-> inst]

\* The instances the ensemble's attributes refer to.
HeldInstances ==
  (IF meta_estimator_.present THEN {MetaInstance(meta_estimator_.gen)} ELSE {})
  \cup (IF base_estimators_.present
        THEN {BaseInstance(base_estimators_.gen, j) : j \in Pairs} ELSE {})
  \cup (IF preprocess_.present
        THEN {PreInstance(preprocess_.gen, c) : c \in Cases} ELSE {})

\* History kept for comparing calls: the partition and the M of the last
\* call that completed its fold phase with shuffling disabled.
NoRun == [n |-> 0, holdout |-> <<>>, M |-> {}]
Remember ==
  IF shuffle THEN prevRun ELSE [n |-> nrows, holdout |-> holdout, M |-> M]

\* fit() holds no try/except: an exception raised at any line leaves the
\* call with that exception; the frame's locals are gone.
ClearLocals ==
  /\ nrows' = 0
  /\ holdout' = <<>>
  /\ data' = {}
  /\ M' = {}
  /\ out' = {}
  /\ prod' = {}
  /\ done' = {}
  /\ fitted' = {}


\* fit() catching the exception and raising one of its own in its place.
RaiseWrapped(err) ==
  /\ pc' = "idle"
  /\ lastResult' = Err("FitError", NoUnit)
  /\ ClearLocals

Raise(err) ==
  /\ pc' = "idle"
  /\ lastResult' = err
  /\ ClearLocals

Running == [kind |-> "running", unit |-> NoUnit]

PreUnits == {<<"pre", f, c>> : f \in DOMAIN holdout, c \in Cases}
FitUnits == {<<"fit", f, j>> : f \in DOMAIN holdout, j \in Pairs}
ProdPreUnits == {<<"ppre", 0, c>> : c \in Cases}
ProdFitUnits == {<<"pfit", 0, j>> : j \in Pairs}

\* The state before any call.  classShuffle is the environment of line 84:
\* "absent" for the class hierarchy as written (Ensemble and its sklearn
\* bases define no attribute `shuffle`), "true"/"false" for a class that
\* provides one (a subclass with a class attribute), the only way an
\* instance comes to exist.
Init ==
  /\ classShuffle \in {"absent", "true", "false"}
  /\ constructed = FALSE
  /\ folds = 0
  /\ shuffle = FALSE
  /\ meta_estimator_ = Absent
  /\ base_estimators_ = Absent
  /\ preprocess_ = Absent
  /\ pc = "idle"
  /\ nrows = 0
  /\ holdout = <<>>
  /\ data = {}
  /\ M = {}
  /\ out = {}
  /\ prod = {}
  /\ done = {}
  /\ fitted = {}
  /\ prevRun = NoRun
  /\ fitCount = 0
  /\ lastOp = "none"
  /\ lastArg = Args(0, 0, FALSE)
  /\ lastResult = Ok

\* Ensemble.__init__ (lines 64-87).  folds is stored unchecked (line 83).
Construct(k, s) ==
  /\ ~constructed
  /\ pc = "idle"
  /\ lastOp' = "init"
  /\ lastArg' = Args(0, k, s)
  /\ IF classShuffle = "absent"
     THEN /\ lastResult' = Err("AttributeError", <<"init", 0, 0>>)
          /\ UNCHANGED <<constructed, folds, shuffle>>
     ELSE /\ constructed' = TRUE
          /\ folds' = k
          /\ shuffle' = StoredShuffle(s)
          /\ lastResult' = Ok
  /\ UNCHANGED <<classShuffle, attrs, pc, locals, fitCount, prevRun>>

\* fit(), lines 102-116: the three attributes are set to unfitted clones,
\* then preprocess_folds is entered; it rejects the fold count (spec 4.1)
\* or fixes the fold partition.
FitBegin(n, perm) ==
  /\ constructed
  /\ pc = "idle"
  /\ fitCount < MaxFits
  /\ fitCount' = fitCount + 1
  /\ lastOp' = "fit"
  /\ lastArg' = Args(n, 0, FALSE)
  /\ meta_estimator_' = Clone(fitCount + 1)
  /\ base_estimators_' = Clone(fitCount + 1)
  /\ preprocess_' = Clone(fitCount + 1)
  /\ IF ValidFoldCount(n, folds)
     THEN /\ pc' = "fold_pre"
          /\ lastResult' = Running
          /\ nrows' = n
          /\ holdout' = Partition(n, perm)
          /\ UNCHANGED <<data, M, out, prod, done, fitted>>
     ELSE Raise(Err("InvalidFoldCount", NoUnit))
  /\ UNCHANGED <<config, prevRun>>

\* preprocess_folds (lines 114-116), one (fold, case) unit completing.
FoldPreUnit(f, c) ==
  /\ pc = "fold_pre"
  /\ <<"pre", f, c>> \in PreUnits \ done
  /\ data' = data \cup {FoldStage(f, c)}
  /\ done' = done \cup {<<"pre", f, c>>}
  /\ fitted' = fitted \cup {Fits(<<"pre", f, c>>, FoldStageInstance(f, c))}
  /\ pc' = IF PreUnits \subseteq done' THEN "fold_fit" ELSE "fold_pre"
  /\ UNCHANGED <<config, attrs, nrows, holdout, M, out, prod, fitCount,
                 lastOp, lastArg, lastResult, prevRun>>

\* A transformer of a fold unit raises.
FoldPreFail(f, c) ==
  /\ pc = "fold_pre"
  /\ <<"pre", f, c>> \in PreUnits \ done
  /\ Raise(Err("PreprocessingFailure", <<"pre", f, c>>))
  /\ UNCHANGED <<config, attrs, fitCount, lastOp, lastArg, prevRun>>



\* fit() starting folded_predictions without waiting for preprocess_folds: a
\* learner unit may run while its case's stage of the fold is still unfitted.
LearnerUnitEager(f, j) ==
  /\ pc \in {"fold_pre", "fold_fit"}
  /\ <<"fit", f, j>> \in FitUnits \ done
  /\ LET ready == {d \in data : d.fold = f /\ d.case = CaseOf[j]}
         unfitted == [fold |-> f, case |-> CaseOf[j], ptrain |-> {},
                      train |-> Rows(nrows) \ holdout[f], hold |-> holdout[f]]
     IN \E d \in (IF ready = {} THEN {unfitted} ELSE ready) :
          M' = M \cup folded_predictions_unit(d, j)
  /\ done' = done \cup {<<"fit", f, j>>}
  /\ fitted' = fitted \cup {Fits(<<"fit", f, j>>, FoldLearnerInstance(f, j))}
  /\ pc' = IF pc = "fold_fit" /\ FitUnits \subseteq done' THEN "meta" ELSE pc
  /\ UNCHANGED <<config, attrs, nrows, holdout, data, out, prod, fitCount,
                 lastOp, lastArg, lastResult, prevRun>>

\* folded_predictions appending a unit's predictions as the next free column
\* of its fold, in the order the units complete.
LearnerUnitByArrival(f, j) ==
  /\ pc = "fold_fit"
  /\ <<"fit", f, j>> \in FitUnits \ done
  /\ \E d \in data :
       /\ d.fold = f
       /\ d.case = CaseOf[j]
       /\ M' = M \cup
            {[cell EXCEPT !.col = 1 + Cardinality({u \in done : u[1] = "fit" /\ u[2] = f})]
               : cell \in folded_predictions_unit(d, j)}
  /\ done' = done \cup {<<"fit", f, j>>}
  /\ fitted' = fitted \cup {Fits(<<"fit", f, j>>, FoldLearnerInstance(f, j))}
  /\ pc' = IF FitUnits \subseteq done' THEN "meta" ELSE "fold_fit"
  /\ UNCHANGED <<config, attrs, nrows, holdout, data, out, prod, fitCount,
                 lastOp, lastArg, lastResult, prevRun>>

\* folded_predictions (lines 119-122), one (fold, pair) unit completing.
LearnerUnit(f, j) ==
  /\ pc = "fold_fit"
  /\ <<"fit", f, j>> \in FitUnits \ done
  /\ \E d \in data :
       /\ d.fold = f
       /\ d.case = CaseOf[j]
       /\ M' = M \cup folded_predictions_unit(d, j)
  /\ done' = done \cup {<<"fit", f, j>>}
  /\ fitted' = fitted \cup {Fits(<<"fit", f, j>>, FoldLearnerInstance(f, j))}
  /\ pc' = IF FitUnits \subseteq done' THEN "meta" ELSE "fold_fit"
  /\ UNCHANGED <<config, attrs, nrows, holdout, data, out, prod, fitCount,
                 lastOp, lastArg, lastResult, prevRun>>

\* A learner of a fold unit raises.
LearnerFail(f, j) ==
  /\ pc = "fold_fit"
  /\ <<"fit", f, j>> \in FitUnits \ done
  /\ Raise(Err("LearnerFitFailure", <<"fit", f, j>>))
  /\ UNCHANGED <<config, attrs, fitCount, lastOp, lastArg, prevRun>>


\* fit() fitting the meta estimator on M while fold units are outstanding.
MetaFitEarly ==
  /\ pc \in {"fold_fit", "meta"}
  /\ meta_estimator_' = [meta_estimator_ EXCEPT !.fitted = TRUE, !.M = M]
  /\ pc' = "prod_pre"
  /\ fitted' = fitted \cup {Fits(<<"meta", 0, 0>>, MetaInstance(meta_estimator_.gen))}
  /\ prevRun' = Remember
  /\ UNCHANGED <<config, base_estimators_, preprocess_, nrows, holdout, data,
                 M, out, prod, done, fitCount, lastOp, lastArg, lastResult>>

\* Line 124: self.meta_estimator_.fit(M, y).
MetaFit ==
  /\ pc = "meta"
  /\ meta_estimator_' = [meta_estimator_ EXCEPT !.fitted = TRUE, !.M = M]
  /\ pc' = "prod_pre"
  /\ fitted' = fitted \cup {Fits(<<"meta", 0, 0>>, MetaInstance(meta_estimator_.gen))}
  /\ prevRun' = Remember
  /\ UNCHANGED <<config, base_estimators_, preprocess_, nrows, holdout, data,
                 M, out, prod, done, fitCount, lastOp, lastArg, lastResult>>

MetaFail ==
  /\ pc = "meta"
  /\ Raise(Err("LearnerFitFailure", <<"meta", 0, 0>>))
  /\ prevRun' = Remember
  /\ UNCHANGED <<config, attrs, fitCount, lastOp, lastArg>>

\* preprocess_pipes (lines 129-130), one case completing; when the last one
\* has, lines 131-133 store the fitted pipes in self.preprocess_.
ProdPreUnit(c) ==
  /\ pc = "prod_pre"
  /\ <<"ppre", 0, c>> \in ProdPreUnits \ done
  /\ out' = out \cup {preprocess_pipes_unit(c, nrows)}
  /\ done' = done \cup {<<"ppre", 0, c>>}
  /\ fitted' = fitted \cup {Fits(<<"ppre", 0, c>>, PreInstance(preprocess_.gen, c))}
  /\ IF ProdPreUnits \subseteq done'
     THEN /\ preprocess_' = [preprocess_ EXCEPT !.fitted = TRUE, !.parts = out']
          /\ pc' = "prod_fit"
     ELSE UNCHANGED <<preprocess_, pc>>
  /\ UNCHANGED <<config, meta_estimator_, base_estimators_, nrows, holdout,
                 data, M, prod, fitCount, lastOp, lastArg, lastResult, prevRun>>

ProdPreFail(c) ==
  /\ pc = "prod_pre"
  /\ <<"ppre", 0, c>> \in ProdPreUnits \ done
  /\ Raise(Err("PreprocessingFailure", <<"ppre", 0, c>>))
  /\ UNCHANGED <<config, attrs, fitCount, lastOp, lastArg, prevRun>>

\* fit_estimators (lines 136-138), one pair completing; when the last one
\* has, line 137 stores the result in self.base_estimators_ and line 143
\* returns self.
ProdFitUnit(j) ==
  /\ pc = "prod_fit"
  /\ <<"pfit", 0, j>> \in ProdFitUnits \ done
  /\ LET prod2 == prod \cup {fit_estimators_unit(ProdInput(j), j)}
         done2 == done \cup {<<"pfit", 0, j>>}
     IN IF ProdFitUnits \subseteq done2
        THEN /\ base_estimators_' =
                  [base_estimators_ EXCEPT !.fitted = TRUE, !.parts = prod2]
             /\ pc' = "idle"
             /\ lastResult' = Ok
             /\ ClearLocals
        ELSE /\ prod' = prod2
             /\ done' = done2
             /\ fitted' = fitted \cup
                  {Fits(<<"pfit", 0, j>>, BaseInstance(base_estimators_.gen, j))}
             /\ UNCHANGED <<base_estimators_, pc, lastResult, nrows, holdout,
                            data, M, out>>
  /\ UNCHANGED <<config, meta_estimator_, preprocess_, fitCount, lastOp,
                 lastArg, prevRun>>

ProdFitFail(j) ==
  /\ pc = "prod_fit"
  /\ <<"pfit", 0, j>> \in ProdFitUnits \ done
  /\ Raise(Err("LearnerFitFailure", <<"pfit", 0, j>>))
  /\ UNCHANGED <<config, attrs, fitCount, lastOp, lastArg, prevRun>>

\* Line 161: no line of ensemble.py sets base_feature_pipelines_.
HasBaseFeaturePipelines == FALSE

\* Line 157: self.base_estimators_ is the mapping fit_estimators (or
\* _clone_base_estimators) returned, which has no predict attribute.
ContainerPredict(x) == Err("AttributeError", <<"predict", 157, 0>>)

\* predict(), lines 156-164.
PredictResult(x) ==
  IF base_estimators_.present
  THEN ContainerPredict(x)
  ELSE IF HasBaseFeaturePipelines
       THEN Err("AttributeError", <<"predict", 162, 0>>)
       ELSE IF meta_estimator_.present
            THEN Err("EstimatorError", <<"predict", 164, 0>>)
            ELSE Err("AttributeError", <<"predict", 164, 0>>)


\* Lines 156-162: the (pair, column) cells predict() writes into its M.  M
\* comes whole from one call on self.base_estimators_ (which raises) or is
\* None; predict() never reads self.preprocess_ and writes no column.
PredictColumns(x) == {}

\* predict() storing what it computed on the instance, over a fitted attribute.
PredictStoring(x) ==
  /\ constructed
  /\ pc = "idle"
  /\ lastOp' = "predict"
  /\ lastArg' = Args(x, 0, FALSE)
  /\ lastResult' = PredictResult(x)
  /\ base_estimators_' = [base_estimators_ EXCEPT !.fitted = FALSE, !.parts = {}]
  /\ UNCHANGED <<config, meta_estimator_, preprocess_, pc, locals, fitCount,
                 prevRun>>

Predict(x) ==
  /\ constructed
  /\ pc = "idle"
  /\ lastOp' = "predict"
  /\ lastArg' = Args(x, 0, FALSE)
  /\ lastResult' = PredictResult(x)
  /\ UNCHANGED <<config, attrs, pc, locals, fitCount, prevRun>>

Next ==
  \/ \E k \in 1..MaxFolds, s \in BOOLEAN : Construct(k, s)
  \/ \E n \in 1..MaxN : \E perm \in Perms(n) : FitBegin(n, perm)
  \/ \E f \in DOMAIN holdout, c \in Cases : FoldPreUnit(f, c)
  \/ \E f \in DOMAIN holdout, c \in Cases : FoldPreFail(f, c)
  \/ \E f \in DOMAIN holdout, j \in Pairs : LearnerUnit(f, j)
  \/ \E f \in DOMAIN holdout, j \in Pairs : LearnerFail(f, j)
  \/ MetaFit
  \/ MetaFail
  \/ \E c \in Cases : ProdPreUnit(c)
  \/ \E c \in Cases : ProdPreFail(c)
  \/ \E j \in Pairs : ProdFitUnit(j)
  \/ \E j \in Pairs : ProdFitFail(j)
  \/ \E x \in 1..MaxN : Predict(x)

Spec == Init /\ [][Next]_vars


\* ---------------------------------------------------------------- states
\* Spec 4.5, read off the attributes: Ready when the last fit() returned,
\* Uninitialized when no fitted-state attribute is set.
IsReady ==
  /\ pc = "idle"
  /\ meta_estimator_.fitted
  /\ preprocess_.fitted
  /\ base_estimators_.fitted
IsUninitialized ==
  /\ pc = "idle"
  /\ ~meta_estimator_.present
  /\ ~preprocess_.present
  /\ ~base_estimators_.present
FitReturned == lastOp = "fit" /\ pc = "idle" /\ lastResult = Ok
FitRaised == lastOp = "fit" /\ pc = "idle" /\ lastResult # Ok
\* The step is a call of predict() / the entry of a call of fit().
PredictStep == pc = "idle" /\ pc' = "idle" /\ lastOp' = "predict"
FitEntryStep == pc = "idle" /\ lastOp' = "fit" /\ fitCount' = fitCount + 1

\* ------------------------------------------------------------------ C1
\* C1: after a successful fit(X, y), the M handed to the meta estimator has
\* a cell for every row i and every (case, learner) column, and every cell
\* was written by a learner, on data from a preprocessing stage, whose
\* training rows do not contain i.
C1_NoLeakage ==
  FitReturned =>
    /\ \A i \in Rows(lastArg.x), j \in Pairs :
         \E cell \in meta_estimator_.M : cell.row = i /\ cell.col = ColumnOf(j)
    /\ \A cell \in meta_estimator_.M :
         /\ cell.row \notin cell.ltrain
         /\ cell.row \notin cell.ptrain
         /\ cell.ltrain # {}

C1_Witness ==
  /\ FitReturned
  /\ shuffle
  /\ lastArg.x = MaxN
  /\ Cardinality(meta_estimator_.M) = MaxN * Len(CaseOf)

\* ------------------------------------------------------------------ C2
\* C2: predict() on an ensemble that is not Ready (never fitted, or whose
\* fit() failed part-way) raises NotFittedError.
C2_PredictRaisesNotFitted ==
  (lastOp = "predict" /\ ~IsReady) => lastResult.kind = "NotFittedError"

\* ------------------------------------------------------------------ C3
\* C3: after a fit() that failed at any step the ensemble is Uninitialized:
\* no fitted-state attribute set by the failed call is observable.
C3_FailedFitLeavesUninitialized ==
  FitRaised => IsUninitialized

\* ------------------------------------------------------------------ C4
\* C4: in Ready, predict(X) returns a complete prediction vector (built from
\* the production stages and learners and the meta estimator); it does not
\* fail.
C4_PredictReturnsInReady ==
  (lastOp = "predict" /\ IsReady) => lastResult.kind = "ok"

\* ------------------------------------------------------------------ C5
\* C5: for every (case, learner) pair, the column it writes in the M_test
\* of a predict() accepted in Ready is the column it wrote in the M of fit.
C5_SameColumnAtPredict ==
  (lastOp = "predict" /\ IsReady) =>
    \A j \in Pairs : <<j, ColumnOf(j)>> \in PredictColumns(lastArg.x)

\* ------------------------------------------------------------------ C6
\* C6: a fit() that raises InvalidFoldCount (folds < 2 or folds > n_samples)
\* has instantiated nothing and changed no fitted-state attribute.
C6_InvalidFoldCountChangesNothing ==
  [][(FitEntryStep /\ lastResult'.kind = "InvalidFoldCount")
       => UNCHANGED attrs]_vars

\* ------------------------------------------------------------------ C7
\* C7: while fit() runs with 2 <= folds <= n_samples, there is one holdout
\* set per fold, the holdout sets are pairwise disjoint, and their union is
\* 0..n_samples-1, with and without shuffling.
C7_HoldoutsPartitionRows ==
  pc # "idle" =>
    /\ ValidFoldCount(nrows, folds)
    /\ DOMAIN holdout = 1..folds
    /\ \A f, g \in DOMAIN holdout : f # g => holdout[f] \cap holdout[g] = {}
    /\ UNION {holdout[f] : f \in DOMAIN holdout} = Rows(nrows)

C7_Witness ==
  /\ pc = "fold_fit"
  /\ shuffle
  /\ folds = 2
  /\ nrows = MaxN
  /\ holdout # KFold(nrows, folds, Identity(nrows))

\* ------------------------------------------------------------------ C8
\* C8: when a fold unit fails, fit() ends at once with the error of that
\* unit, a unit that had not completed before; the meta estimator and the
\* production stages and learners of the call stay unfitted and no M is
\* left.  While no unit fails, each step completes exactly one unit that had
\* not completed, and the meta estimator's fit is reached only with every
\* unit complete: none retried, none skipped.
FoldPhases == {"fold_pre", "fold_fit"}
PendingFoldUnits == (IF pc = "fold_pre" THEN PreUnits ELSE FitUnits) \ done
FoldUnitError(u) ==
  Err(IF u[1] = "pre" THEN "PreprocessingFailure" ELSE "LearnerFitFailure", u)
FailFastStep ==
  pc \in FoldPhases =>
       IF pc' = "idle"
       THEN /\ \E u \in PendingFoldUnits : lastResult' = FoldUnitError(u)
            /\ ~meta_estimator_'.fitted
            /\ ~preprocess_'.fitted
            /\ ~base_estimators_'.fitted
            /\ M' = {}
       ELSE /\ \E u \in PendingFoldUnits : done' = done \cup {u}
            /\ pc' = "meta" => (PreUnits \cup FitUnits) \subseteq done'
            /\ lastResult' = Running
C8_FailFast == [][FailFastStep]_vars

C8_Witness ==
  /\ FitRaised
  /\ folds = 3
  /\ lastResult = Err("PreprocessingFailure", <<"pre", 3, 1>>)

\* ------------------------------------------------------------------ C9
\* C9: constructing the ensemble with shuffle = s succeeds and stores s.
C9_ShuffleHonoured ==
  lastOp = "init" => (lastResult = Ok /\ constructed /\ shuffle = lastArg.shuffle)

\* ------------------------------------------------------------------ C10
\* C10: a predict() call changes no attribute of the ensemble (from Ready it
\* ends in Ready), and a predict() repeating the previous call's X gives the
\* previous call's result.
PredictFrameStep ==
  PredictStep =>
       /\ UNCHANGED <<config, attrs, locals, fitCount>>
       /\ IsReady => IsReady'
       /\ (lastOp = "predict" /\ lastArg' = lastArg) => lastResult' = lastResult
C10_PredictNonMutating == [][PredictFrameStep]_vars

C10_Witness ==
  /\ lastOp = "predict"
  /\ IsReady
  /\ fitCount = 1

\* ------------------------------------------------------------------ C11
\* C11: with shuffling disabled, a fit() call on the same data (the same
\* n_samples, the same ensemble) as an earlier call completes its fold phase,
\* under every order of its work units, with the fold partition and the M
\* of that earlier call.
C11_Deterministic ==
  (pc = "meta" /\ ~shuffle /\ prevRun.n = nrows) =>
    /\ holdout = prevRun.holdout
    /\ M = prevRun.M

C11_Witness ==
  /\ pc = "meta"
  /\ ~shuffle
  /\ fitCount = 2
  /\ prevRun.n = nrows
  /\ nrows = MaxN
  /\ M # {}

\* ------------------------------------------------------------------ C12
\* C12: at every point of the fold phase and under every completion order,
\* M holds exactly the cells of the (fold, pair) units completed so far:
\* the positions written are the units' own (holdout rows of the fold, column
\* of the pair), each position holds one cell, and the cell at row i of pair
\* j's column comes from a learner of pair j's unit in the fold that holds
\* out i.  The M handed to the meta estimator is therefore the same for
\* every order.
Positions(cells) == {<<cell.row, cell.col>> : cell \in cells}
UnitPositions(u) == {<<i, ColumnOf(u[3])>> : i \in holdout[u[2]]}
DoneFitUnits == {u \in done : u[1] = "fit"}
C12_OrderIndependentM ==
  pc \in {"fold_fit", "meta"} =>
    /\ Positions(M) = UNION {UnitPositions(u) : u \in DoneFitUnits}
    /\ Cardinality(M) = Cardinality(Positions(M))
    /\ \A u, v \in FitUnits : u # v => UnitPositions(u) \cap UnitPositions(v) = {}
    /\ \A cell \in M :
         /\ cell.row \in holdout[cell.fold]
         /\ cell.ltrain = Rows(nrows) \ holdout[cell.fold]
         /\ cell.ptrain = Rows(nrows) \ holdout[cell.fold]
    /\ pc = "meta" => Positions(M) = Rows(nrows) \X {ColumnOf(j) : j \in Pairs}

C12_Witness ==
  /\ pc = "fold_fit"
  /\ folds = 2
  /\ nrows = MaxN
  /\ DoneFitUnits = {<<"fit", 2, 3>>, <<"fit", 1, 2>>}

\* ------------------------------------------------------------------ C13
\* C13: whenever a (fold, pair) learner unit has run, the preprocessing unit
\* of the pair's case in that fold had completed before: its fitted stage is
\* in `data`, fitted on the fold's (non-empty) training partition, and the
\* learner's cells come from data transformed by that stage.
StageUnitOf(u) == <<"pre", u[2], CaseOf[u[3]]>>
C13_PreprocessBeforeLearners ==
  \A u \in DoneFitUnits :
    /\ StageUnitOf(u) \in done
    /\ \E r \in fitted : r.unit = StageUnitOf(u)
    /\ \E d \in data :
         /\ d.fold = u[2]
         /\ d.case = CaseOf[u[3]]
         /\ d.ptrain # {}
         /\ \A cell \in M :
              (cell.fold = u[2] /\ cell.col = ColumnOf(u[3])) => cell.ptrain = d.ptrain

C13_Witness ==
  /\ pc = "fold_fit"
  /\ folds = 3
  /\ DoneFitUnits = {<<"fit", 3, 3>>}

\* ------------------------------------------------------------------ C14
\* C14: the meta estimator is fitted only with every fold unit complete and
\* every cell of M written, and on that M; no production stage or learner
\* is fitted before the meta estimator is; and fit() has returned only with
\* the production stage of every case and the production learner of every
\* pair fitted.
FullM == Rows(nrows) \X {ColumnOf(j) : j \in Pairs}
C14_PhaseOrder ==
  /\ (meta_estimator_.fitted /\ pc # "idle") =>
       /\ (PreUnits \cup FitUnits) \subseteq done
       /\ Positions(M) = FullM
       /\ meta_estimator_.M = M
  /\ pc \in {"prod_pre", "prod_fit"} => meta_estimator_.fitted
  /\ (out # {} \/ prod # {} \/ preprocess_.fitted \/ base_estimators_.fitted
        \/ (done \cap (ProdPreUnits \cup ProdFitUnits)) # {})
       => meta_estimator_.fitted
  /\ (prod # {} \/ base_estimators_.fitted) =>
       (preprocess_.fitted /\ {z.case : z \in preprocess_.parts} = Cases)
  /\ FitReturned =>
       /\ IsReady
       /\ {z.case : z \in preprocess_.parts} = Cases
       /\ {p.pair : p \in base_estimators_.parts} = Pairs

C14_Witness ==
  /\ FitReturned
  /\ ~shuffle
  /\ fitCount = 2
  /\ {p.pair : p \in base_estimators_.parts} = Pairs

\* ------------------------------------------------------------------ C15
\* C15: no instance fitted by a fold unit is one of the instances the
\* ensemble holds in meta_estimator_, base_estimators_ or preprocess_ (the
\* ones predict() reads and that survive the return), and no instance
\* fitted by a production unit is one fitted by a fold unit.
FoldFitted == {r.inst : r \in {q \in fitted : q.unit[1] \in {"pre", "fit"}}}
ProdFitted == {r.inst : r \in {q \in fitted : q.unit[1] \in {"meta", "ppre", "pfit"}}}
C15_EphemeralNeverEscape ==
  /\ FoldFitted \cap HeldInstances = {}
  /\ FoldFitted \cap ProdFitted = {}
  /\ ProdFitted \subseteq HeldInstances
  /\ \A i \in HeldInstances : i[3] = 0 /\ i[1] \notin {"L114", "L120"}

C15_Witness ==
  /\ pc = "prod_fit"
  /\ folds = 2
  /\ Cardinality(FoldFitted) = folds * (Cardinality(Cases) + Len(CaseOf))
  /\ \E r \in fitted : r.unit[1] = "pfit"

\* ------------------------------------------------------------------ C16
\* C16: in Ready the production stage of every case was fitted on all
\* n_samples rows, and the production learner of every pair was fitted on
\* all rows of the data transformed by the production stage of the pair's
\* own case; after fit(X, y) returns, n_samples is that of its X.
ProductionOnFullData(n) ==
  /\ \A c \in Cases :
       \E z \in preprocess_.parts : z.case = c /\ z.ptrain = Rows(n) /\ z.rows = Rows(n)
  /\ \A z \in preprocess_.parts : z.ptrain = Rows(n)
  /\ \A j \in Pairs :
       \E p \in base_estimators_.parts : p.pair = j
  /\ \A p \in base_estimators_.parts :
       /\ p.case = CaseOf[p.pair]
       /\ p.ltrain = Rows(n)
       /\ p.ptrain = Rows(n)
C16_ProductionOnFullData ==
  /\ IsReady => \E n \in 1..MaxN : ProductionOnFullData(n)
  /\ FitReturned => ProductionOnFullData(lastArg.x)

C16_Witness ==
  /\ FitReturned
  /\ IsReady
  /\ lastArg.x = 2
  /\ fitCount = 1
  /\ Cardinality(base_estimators_.parts) = Len(CaseOf)

\* ------------------------------------------------------------------ C18
\* C18: no two work units of a fit() call, in its fold phase or in its
\* production phase, fit the same preprocessing or learner instance.
C18_UnitsOwnTheirInstances ==
  \A r1, r2 \in fitted : r1.inst = r2.inst => r1.unit = r2.unit

C18_Witness ==
  /\ pc = "fold_fit"
  /\ folds = 3
  /\ {r.unit : r \in fitted} = PreUnits \cup {<<"fit", 1, 1>>, <<"fit", 2, 1>>}

\* ------------------------------------------------------------------ C19
\* C19: every instance a unit of fit() fits, in the fold phase and in the
\* production phase, and every instance the ensemble holds, is one created
\* by fit() and not a constructor-supplied specification.
C19_SpecificationsNeverFitted ==
  /\ \A r \in fitted : r.inst \notin SpecInstances
  /\ HeldInstances \cap SpecInstances = {}

C19_Witness ==
  /\ pc = "prod_fit"
  /\ fitCount = 2
  /\ FoldFitted # {}
  /\ {r.unit : r \in fitted} \cap ProdPreUnits = ProdPreUnits
  /\ \E r \in fitted : r.unit = <<"meta", 0, 0>>

\* ------------------------------------------------------------------ C20
\* C20: whenever the ensemble is at rest with a fitted meta estimator (the
\* artifacts a predict() would use), its production stages and production
\* learners are fitted too, all by the fit() call that fitted the meta
\* estimator.
C20_SingleGeneration ==
  (pc = "idle" /\ meta_estimator_.fitted) =>
    /\ preprocess_.fitted
    /\ base_estimators_.fitted
    /\ preprocess_.gen = meta_estimator_.gen
    /\ base_estimators_.gen = meta_estimator_.gen
==========================================================================
